---- MODULE Spec2Model ----
(***************************************************************************)
(* mdfiles: list the files under a root whose name ends with a suffix and  *)
(* whose last-modification local date equals a target date, printing each  *)
(* as a Markdown list item (src/src/main.rs).                              *)
(*                                                                         *)
(* Text is a sequence of one-character tokens.  The token BadByte stands   *)
(* for a byte sequence that is not valid UTF-8 (it can occur in an OsStr   *)
(* but never in a str).  The literal pieces of the output line are the     *)
(* tokens "- [", "](" and ")".                                             *)
(***************************************************************************)
EXTENDS Integers, Sequences, FiniteSets, TLC

\* ------------------------------------------------------------------ text

BadByte == "<FF>"

Digits == {"0", "1", "2", "3", "4", "5", "6", "7", "8", "9"}

DigitVal == ("0" :> 0) @@ ("1" :> 1) @@ ("2" :> 2) @@ ("3" :> 3) @@ ("4" :> 4)
            @@ ("5" :> 5) @@ ("6" :> 6) @@ ("7" :> 7) @@ ("8" :> 8) @@ ("9" :> 9)

DigitTok == <<"0", "1", "2", "3", "4", "5", "6", "7", "8", "9">>

Drop(s, k) == SubSeq(s, k + 1, Len(s))

Last(s) == s[Len(s)]

\* str::trim_start: drop the leading white space
RECURSIVE TrimStart(_)
TrimStart(s) == IF s # <<>> /\ Head(s) = " " THEN TrimStart(Tail(s)) ELSE s

\* str::ends_with
EndsWith(s, suffix) ==
    /\ Len(suffix) <= Len(s)
    /\ SubSeq(s, Len(s) - Len(suffix) + 1, Len(s)) = suffix

\* OsStr::to_str: the text when it is valid UTF-8, None otherwise
None == [some |-> FALSE]

Some(v) == [some |-> TRUE, val |-> v]

to_str(os) == IF \E i \in 1..Len(os) : os[i] = BadByte THEN None ELSE Some(os)

\* ------------------------------------------------------------ chrono dates

RECURSIVE DigitsToInt(_)
DigitsToInt(s) ==
    IF s = <<>> THEN 0 ELSE 10 * DigitsToInt(SubSeq(s, 1, Len(s) - 1)) + DigitVal[Last(s)]

\* chrono format::scan::number(s, min, max): between min and max leading
\* decimal digits; max = 0 stands for usize::MAX
ScanNumber(s, min, max) ==
    LET lim == IF max = 0 \/ Len(s) < max THEN Len(s) ELSE max
        ks  == {k \in 0..lim : \A j \in 1..k : s[j] \in Digits}
        n   == CHOOSE k \in ks : \A k2 \in ks : k2 <= k
    IN  IF n < min THEN [ok |-> FALSE]
        ELSE [ok |-> TRUE, rest |-> Drop(s, n), val |-> DigitsToInt(SubSeq(s, 1, n))]

\* Item::Numeric(Year): leading white space skipped; an explicit sign lifts
\* the four-digit limit
ScanYear(s) ==
    LET t == TrimStart(s)
    IN  IF t # <<>> /\ Head(t) = "-"
        THEN LET r == ScanNumber(Tail(t), 1, 0)
             IN  IF r.ok THEN [r EXCEPT !.val = 0 - r.val] ELSE r
        ELSE IF t # <<>> /\ Head(t) = "+" THEN ScanNumber(Tail(t), 1, 0)
        ELSE ScanNumber(t, 1, 4)

\* Item::Numeric(Month) and Item::Numeric(Day): one or two digits
ScanTwo(s) == ScanNumber(TrimStart(s), 1, 2)

\* Item::Literal("-")
ScanDash(s) ==
    IF s # <<>> /\ Head(s) = "-" THEN [ok |-> TRUE, rest |-> Tail(s)] ELSE [ok |-> FALSE]

IsLeap(y) == (y % 4 = 0 /\ y % 100 # 0) \/ y % 400 = 0

DaysIn(y, m) ==
    IF m = 2 THEN (IF IsLeap(y) THEN 29 ELSE 28)
    ELSE IF m \in {4, 6, 9, 11} THEN 30 ELSE 31

\* NaiveDate::from_ymd_opt
from_ymd_opt(y, m, d) ==
    IF /\ y >= -262143 /\ y <= 262142
       /\ m >= 1 /\ m <= 12
       /\ d >= 1 /\ d <= DaysIn(y, m)
    THEN Some([year |-> y, month |-> m, day |-> d])
    ELSE None

\* NaiveDate::parse_from_str(s, "%Y-%m-%d"): the items in order, then
\* nothing may be left over
parse_from_str(s) ==
    LET y  == ScanYear(s)
        d1 == IF y.ok THEN ScanDash(y.rest) ELSE [ok |-> FALSE]
        m  == IF d1.ok THEN ScanTwo(d1.rest) ELSE [ok |-> FALSE]
        d2 == IF m.ok THEN ScanDash(m.rest) ELSE [ok |-> FALSE]
        d  == IF d2.ok THEN ScanTwo(d2.rest) ELSE [ok |-> FALSE]
    IN  IF d.ok /\ d.rest = <<>> THEN from_ymd_opt(y.val, m.val, d.val) ELSE None

\* write_hundreds: two decimal digits
TwoDigits(n) == <<DigitTok[(n \div 10) + 1], DigitTok[(n % 10) + 1]>>

RECURSIVE IntToDigits(_)
IntToDigits(n) ==
    IF n < 10 THEN <<DigitTok[n + 1]>>
    ELSE Append(IntToDigits(n \div 10), DigitTok[(n % 10) + 1])

RECURSIVE PadLeft(_, _)
PadLeft(s, w) == IF Len(s) >= w THEN s ELSE PadLeft(<<"0">> \o s, w)

\* a rendering without zero padding of the month and the day
date_to_string_unpadded(dt) ==
    TwoDigits(dt.year \div 100) \o TwoDigits(dt.year % 100)
    \o <<"-">> \o IntToDigits(dt.month) \o <<"-">> \o IntToDigits(dt.day)

\* impl Display for NaiveDate: four digits for the years 0..9999, a sign
\* and at least four digits otherwise
date_to_string(dt) ==
    LET yr == IF dt.year >= 0 /\ dt.year <= 9999
              THEN TwoDigits(dt.year \div 100) \o TwoDigits(dt.year % 100)
              ELSE IF dt.year < 0
                   THEN <<"-">> \o PadLeft(IntToDigits(0 - dt.year), 4)
                   ELSE <<"+">> \o PadLeft(IntToDigits(dt.year), 4)
    IN  yr \o <<"-">> \o TwoDigits(dt.month) \o <<"-">> \o TwoDigits(dt.day)

\* ------------------------------------------------------------- variables

VARIABLES
    dateArg,     \* Args.date: Option<String>
    suffix,      \* Args.suffix
    rootArg,     \* Args.root
    fs,          \* the file system: entry key (sequence of names) -> entry
    readdirRev,  \* the order in which read_dir lists a directory
    clock,       \* today's date in the local time zone
    pc,          \* where main is: "start", "root", "walk", "done", "exited"
    date,        \* main's `date` once resolved
    items,       \* what the WalkDir iterator yields, once it is built
    pos,         \* number of items main has pulled out of the WalkDir iterator
    yielded,     \* the paths the `files` iterator has handed to the for loop
    statted,     \* the paths match_date has asked the metadata of
    stdout,      \* lines written by println!
    stderr,      \* lines written by eprintln!
    exitCode     \* None while running, Some(code) once the process has ended

vars == <<dateArg, suffix, rootArg, fs, readdirRev, clock, pc, date, items, pos,
          yielded, statted, stdout, stderr, exitCode>>

\* ------------------------------------------------------------------ paths

RECURSIVE SplitAt(_, _, _)
\* the runs of tokens between separators; empty runs and "." are dropped,
\* except a leading "."
SplitAt(s, cur, acc) ==
    LET skip == cur = <<>> \/ (cur = <<".">> /\ acc # <<>>)
        acc2 == IF skip THEN acc ELSE Append(acc, cur)
    IN  IF s = <<>> THEN acc2
        ELSE IF Head(s) = "/" THEN SplitAt(Tail(s), <<>>, acc2)
        ELSE SplitAt(Tail(s), Append(cur, Head(s)), acc)

\* Path::components
Components(path) == SplitAt(path, <<>>, <<>>)

\* Path::file_name: the last component when it is a normal one
file_name(path) ==
    LET c == Components(path)
    IN  IF c = <<>> \/ Last(c) = <<".">> \/ Last(c) = <<".", ".">>
        THEN None ELSE Some(Last(c))

\* Path::join with a relative name
PathJoin(path, name) ==
    IF path = <<>> \/ Last(path) = "/" THEN path \o name ELSE path \o <<"/">> \o name

\* the entry key a path names, relative to the working directory
Resolve(path) == SelectSeq(Components(path), LAMBDA c : c # <<".">>)

\* ------------------------------------------------------------ file system

D1 == [year |-> 2025, month |-> 12, day |-> 25]

D2 == [year |-> 2020, month |-> 1, day |-> 1]

\* the kinds of entry the model's file systems are built from, in the
\* order read_dir lists them.  kind: the file type WalkDir reports (links
\* are not followed); walk: whether WalkDir yields the entry rather than an
\* error; listable: whether read_dir succeeds on it; modified: the local
\* date of fs::metadata(..).modified(), None when either call fails.
\* fs::metadata follows a symbolic link: the link below points to a
\* regular file modified on D1
NameTable == <<
    [name |-> <<"a", ".", "g", "o">>, kind |-> "file", walk |-> TRUE,
     listable |-> FALSE, modified |-> Some(D1)],
    [name |-> <<"b", ".", "g", "o">>, kind |-> "file", walk |-> TRUE,
     listable |-> FALSE, modified |-> Some(D2)],
    [name |-> <<"a", ".", "g", "o", "~">>, kind |-> "file", walk |-> TRUE,
     listable |-> FALSE, modified |-> Some(D1)],
    [name |-> <<BadByte, ".", "g", "o">>, kind |-> "file", walk |-> TRUE,
     listable |-> FALSE, modified |-> Some(D1)],
    [name |-> <<"m", ".", "g", "o">>, kind |-> "file", walk |-> TRUE,
     listable |-> FALSE, modified |-> None],
    [name |-> <<"e", ".", "g", "o">>, kind |-> "file", walk |-> FALSE,
     listable |-> FALSE, modified |-> None],
    [name |-> <<"l", ".", "g", "o">>, kind |-> "symlink", walk |-> TRUE,
     listable |-> FALSE, modified |-> Some(D1)],
    [name |-> <<"d", ".", "g", "o">>, kind |-> "dir", walk |-> TRUE,
     listable |-> TRUE, modified |-> Some(D1)],
    [name |-> <<"u">>, kind |-> "dir", walk |-> TRUE,
     listable |-> FALSE, modified |-> Some(D1)],
    [name |-> <<BadByte>>, kind |-> "dir", walk |-> TRUE,
     listable |-> TRUE, modified |-> Some(D2)] >>

Names == {NameTable[i].name : i \in 1..Len(NameTable)}

NameIdx(n) == CHOOSE i \in 1..Len(NameTable) : NameTable[i].name = n

Profile(n) == [kind |-> NameTable[NameIdx(n)].kind,
               walk |-> NameTable[NameIdx(n)].walk,
               listable |-> NameTable[NameIdx(n)].listable,
               modified |-> NameTable[NameIdx(n)].modified]

WorkDir == [kind |-> "dir", walk |-> TRUE, listable |-> TRUE, modified |-> Some(D2)]

\* largest number of entries below the working directory
MaxEntries == 3

Extensions(T) ==
    ({<<n>> : n \in Names}
     \cup {Append(q, n) : q \in {k \in T : Profile(Last(k)).kind = "dir"}, n \in Names}) \ T

RECURSIVE TreesUpTo(_)
TreesUpTo(n) ==
    IF n = 0 THEN {{}}
    ELSE LET prev == TreesUpTo(n - 1)
         IN  prev \cup UNION {{T \cup {k} : k \in Extensions(T)} : T \in prev}

FileSystems ==
    {[k \in T \cup {<<>>} |-> IF k = <<>> THEN WorkDir ELSE Profile(Last(k))] :
        T \in TreesUpTo(MaxEntries)}

RECURSIVE KeyPath(_)
\* the path of an entry as the run is given it: "." joined with its names
KeyPath(k) == IF k = <<>> THEN <<".">> ELSE PathJoin(KeyPath(SubSeq(k, 1, Len(k) - 1)), Last(k))

Missing == <<".", "/", "n", "o", "n", "e">>

\* Args.root is a String: only valid UTF-8 reaches main
RootArgs(f) == {KeyPath(k) : k \in {k2 \in DOMAIN f : to_str(KeyPath(k2)).some}} \cup {Missing}

\* fs::metadata(path).and_then(|m| m.modified()), as a local date
Modified(path) ==
    LET k == Resolve(path) IN IF k \in DOMAIN fs THEN fs[k].modified ELSE None

\* no check of the root at all
Exists_always(path) == TRUE

\* a check that the root is a directory
Exists_dir(path) ==
    LET k == Resolve(path)
    IN  k \in DOMAIN fs /\ fs[k].modified.some /\ fs[k].kind = "dir"

\* Path::exists: fs::metadata(path).is_ok()
Exists(path) == Modified(path).some

\* read_dir(key): the names in the directory, in listing order
ReadDir(key) ==
    LET ch  == {k \in DOMAIN fs : Len(k) = Len(key) + 1 /\ SubSeq(k, 1, Len(key)) = key}
        rank(k) == IF readdirRev THEN 0 - NameIdx(Last(k)) ELSE NameIdx(Last(k))
        nth(j) == CHOOSE k \in ch : Cardinality({k2 \in ch : rank(k2) < rank(k)}) = j - 1
    IN  [j \in 1..Cardinality(ch) |-> Last(nth(j))]

RECURSIVE Concat(_)
Concat(ss) == IF ss = <<>> THEN <<>> ELSE Head(ss) \o Concat(Tail(ss))

\* a traversal that lists a directory without descending into what it lists
WalkEntry_flat(path, key) ==
    LET e == fs[key]
        names == ReadDir(key)
        item(n) == IF fs[Append(key, n)].walk
                   THEN [ok |-> TRUE, path |-> PathJoin(path, n),
                         file_type |-> fs[Append(key, n)].kind]
                   ELSE [ok |-> FALSE]
    IN  IF ~e.walk THEN << [ok |-> FALSE] >>
        ELSE << [ok |-> TRUE, path |-> path, file_type |-> e.kind] >>
             \o (IF e.kind # "dir" THEN <<>>
                 ELSE IF ~e.listable THEN << [ok |-> FALSE] >>
                 ELSE [j \in 1..Len(names) |-> item(names[j])])

RECURSIVE WalkEntry(_, _)
\* what WalkDir yields for the entry `key` found at `path`, and below it:
\* the entry itself before its contents, an Err item for an entry or a
\* directory listing that fails
WalkEntry(path, key) ==
    LET e == fs[key]
        names == ReadDir(key)
    IN  IF ~e.walk THEN << [ok |-> FALSE] >>
        ELSE << [ok |-> TRUE, path |-> path, file_type |-> e.kind] >>
             \o (IF e.kind # "dir" THEN <<>>
                 ELSE IF ~e.listable THEN << [ok |-> FALSE] >>
                 ELSE Concat([j \in 1..Len(names) |->
                          WalkEntry(PathJoin(path, names[j]), Append(key, names[j]))]))

\* WalkDir::new(root).into_iter(), as the sequence of its items
WalkDir(root) ==
    IF Resolve(root) \in DOMAIN fs THEN WalkEntry(root, Resolve(root)) ELSE << [ok |-> FALSE] >>

\* ------------------------------------------------------------ the program

\* get_date
get_date(date_str) ==
    IF date_str.some
    THEN LET r == parse_from_str(date_str.val)
         IN  IF r.some THEN [ok |-> TRUE, val |-> r.val]
             ELSE [ok |-> FALSE, err |-> "Invalid date format (should be YYYY-MM-DD)"]
    ELSE [ok |-> TRUE, val |-> clock]

\* format_as_markdown
format_as_markdown(path) ==
    LET n == file_name(path)
        t == IF n.some THEN to_str(n.val) ELSE None
        filename == IF t.some THEN t.val ELSE path
    IN  <<"- [">> \o filename \o <<"](">> \o path \o <<")">>

\* file_iterator: the paths of the Ok items that are regular files
file_iterator(root) ==
    LET files == SelectSeq(WalkDir(root), LAMBDA it : it.ok /\ it.file_type = "file")
    IN  [i \in 1..Len(files) |-> files[i].path]

\* has_suffix
has_suffix(path, sfx) ==
    LET n == file_name(path)
        t == IF n.some THEN to_str(n.val) ELSE None
    IN  IF t.some THEN EndsWith(t.val, sfx) ELSE FALSE

\* a date predicate that lets a file through when its metadata fails
match_date_lenient(path, target_date) ==
    LET m == Modified(path)
    IN  IF m.some THEN m.val = target_date ELSE TRUE

\* match_date
match_date(path, target_date) ==
    LET m == Modified(path)
    IN  IF m.some THEN m.val = target_date ELSE FALSE

\* file_iterator's two filters on one WalkDir item: e.ok(), then is_file()
IsFile(it) == it.ok /\ it.file_type = "file"

\* a chain that keeps a path passing either filter
Keep_either(path) == has_suffix(path, suffix) \/ match_date(path, date.val)

\* main's filter chain on one path: the suffix filter, then the date filter
Keep(path) == has_suffix(path, suffix) /\ match_date(path, date.val)

\* what main hands to format_as_markdown: file.to_str().unwrap_or("")
PrintArg(file) == IF to_str(file).some THEN to_str(file).val ELSE <<>>

\* output that puts the newest line first
println_front(out, line) == <<line>> \o out

\* println!: one more line at the end of the output stream
println(out, line) == Append(out, line)

RootError(root) == <<"error: root directory '">> \o root \o <<"' does not exist">>

\* ------------------------------------------------------------------ inputs

DateArgs ==
    { Some(<<"2", "0", "2", "5", "-", "1", "2", "-", "2", "5">>),
      Some(<<"2", "0", "2", "5", "-", "1", "3", "-", "4", "5">>) }

Suffixes == { <<".", "g", "o">> }

Today == D2

TypeOK ==
    /\ pc \in {"start", "root", "walk", "done", "exited"}
    /\ pos \in 0..Len(items)
    /\ items \in {<<>>, WalkDir(rootArg)}
    /\ exitCode \in {None, Some(0), Some(1)}

Fresh ==
    /\ pc = "start"
    /\ date = None
    /\ items = <<>>
    /\ pos = 0
    /\ yielded = <<>>
    /\ statted = <<>>
    /\ stdout = <<>>
    /\ stderr = <<>>
    /\ exitCode = None

Init ==
    /\ dateArg \in DateArgs
    /\ suffix \in Suffixes
    /\ fs \in FileSystems
    /\ rootArg \in RootArgs(fs)
    /\ readdirRev \in BOOLEAN
    /\ clock = Today
    /\ Fresh

\* the date strings the date resolver is tried on: a lead, a year, a
\* separator, a month, "-", a day and a trail, each from a few texts
Leads == { <<>>, <<" ">>, <<"+">>, <<"-">>, <<"x">> }

YearTexts ==
    { <<"2", "0", "2", "5">>, <<"2", "0", "2", "4">>, <<"2", "0", "2", "0">>,
      <<"1", "9", "0", "0">>, <<"2", "0", "0", "0">>, <<"0", "0", "0", "0">>,
      <<"9", "9", "9", "9">>, <<"2", "5">>, <<"2", "0", "2">>,
      <<"1", "2", "3", "4", "5">> }

Separators == { <<"-">>, <<"/">> }

MonthTexts ==
    { <<"0", "1">>, <<"1">>, <<"0", "2">>, <<"2">>, <<" ", "2">>, <<"1", "2">>,
      <<"1", "3">>, <<"0", "0">> }

DayTexts ==
    { <<"0", "1">>, <<"1">>, <<"2", "5">>, <<"2", "8">>, <<"2", "9">>, <<"3", "0">>,
      <<"3", "1">>, <<"3", "2">>, <<"0", "0">>, <<"4", "5">> }

Trails == { <<>>, <<" ">>, <<"x">>, <<"2", "5">> }

DateStrings ==
    { l \o y \o s1 \o m \o <<"-">> \o d \o t :
        l \in Leads, y \in YearTexts, s1 \in Separators, m \in MonthTexts,
        d \in DayTexts, t \in Trails }
    \cup { <<>>,
           <<"n", "o", "t", "-", "a", "-", "d", "a", "t", "e">>,
           <<"2", "5", "-", "1", "2", "-", "2", "0", "2", "5">>,
           <<"2", "0", "2", "5", "-", "1", "-", "5">> }

\* the file system the date resolver's runs start from
DateRunFs ==
    [k \in { <<>>, << <<"a", ".", "g", "o">> >>, << <<"b", ".", "g", "o">> >> } |->
        IF k = <<>> THEN WorkDir ELSE Profile(Last(k))]

InitDate ==
    /\ dateArg \in {None} \cup {Some(t) : t \in DateStrings}
    /\ suffix \in Suffixes
    /\ fs = DateRunFs
    /\ rootArg \in {<<".">>, Missing}
    /\ readdirRev = FALSE
    /\ clock = Today
    /\ Fresh

\* ----------------------------------------------------------------- actions

args == <<dateArg, suffix, rootArg, fs, readdirRev, clock>>

\* main, lines 78-79: the date resolves
GetDateOk ==
    /\ pc = "start"
    /\ get_date(dateArg).ok
    /\ date' = Some(get_date(dateArg).val)
    /\ pc' = "root"
    /\ UNCHANGED <<args, items, pos, yielded, statted, stdout, stderr, exitCode>>

\* main, lines 80-83: the date does not resolve
GetDateErr ==
    /\ pc = "start"
    /\ ~get_date(dateArg).ok
    /\ stderr' = Append(stderr, <<"error: ", get_date(dateArg).err>>)
    /\ exitCode' = Some(1)
    /\ pc' = "exited"
    /\ UNCHANGED <<args, date, items, pos, yielded, statted, stdout>>

\* main, lines 86-90: the root does not exist
RootNotFound ==
    /\ pc = "root"
    /\ ~Exists(rootArg)
    /\ stderr' = Append(stderr, RootError(rootArg))
    /\ exitCode' = Some(1)
    /\ pc' = "exited"
    /\ UNCHANGED <<args, date, items, pos, yielded, statted, stdout>>

\* main, lines 86-94: the root exists, the iterator chain is built
RootFound ==
    /\ pc = "root"
    /\ Exists(rootArg)
    /\ items' = WalkDir(rootArg)
    /\ pc' = "walk"
    /\ UNCHANGED <<args, date, pos, yielded, statted, stdout, stderr, exitCode>>

\* main, lines 92-98: the chain pulls one more item out of WalkDir; a
\* regular file that passes both filters reaches the loop body and is
\* printed before the next item is pulled
WalkStep ==
    /\ pc = "walk"
    /\ pos < Len(items)
    /\ LET it == items[pos + 1]
           asked == IsFile(it) /\ has_suffix(it.path, suffix)
           hit == IsFile(it) /\ Keep(it.path)
       IN  /\ pos' = pos + 1
           /\ statted' = IF asked THEN Append(statted, it.path) ELSE statted
           /\ yielded' = IF hit THEN Append(yielded, it.path) ELSE yielded
           /\ stdout' = IF hit THEN println(stdout, format_as_markdown(PrintArg(it.path)))
                        ELSE stdout
    /\ UNCHANGED <<args, pc, date, items, stderr, exitCode>>

\* main, lines 96-99: the iterator is exhausted, main returns
WalkEnd ==
    /\ pc = "walk"
    /\ pos = Len(items)
    /\ pc' = "done"
    /\ exitCode' = Some(0)
    /\ UNCHANGED <<args, date, items, pos, yielded, statted, stdout, stderr>>

Next == GetDateOk \/ GetDateErr \/ RootNotFound \/ RootFound \/ WalkStep \/ WalkEnd

Spec == Init /\ [][Next]_vars

\* the same program, started on many date strings and one file system
SpecDate == InitDate /\ [][Next]_vars

\* ------------------------------------------------- what the claims speak of

\* a date string in the strict layout YYYY-MM-DD that names a calendar date
CalendarDays(y, m) ==
    IF m \in {1, 3, 5, 7, 8, 10, 12} THEN 31
    ELSE IF m # 2 THEN 30
    ELSE IF y % 400 = 0 \/ (y % 4 = 0 /\ y % 100 # 0) THEN 29 ELSE 28

StrictValid(t) ==
    /\ Len(t) = 10
    /\ t[5] = "-" /\ t[8] = "-"
    /\ \A i \in {1, 2, 3, 4, 6, 7, 9, 10} : t[i] \in Digits
    /\ LET y == DigitsToInt(SubSeq(t, 1, 4))
           m == DigitsToInt(SubSeq(t, 6, 7))
           d == DigitsToInt(SubSeq(t, 9, 10))
       IN  m \in 1..12 /\ d \in 1..CalendarDays(y, m)

\* the run was given no date, or a valid one
DateValid == ~dateArg.some \/ StrictValid(dateArg.val)

\* the date the run is to compare modification dates against
TargetDate ==
    IF dateArg.some
    THEN [year |-> DigitsToInt(SubSeq(dateArg.val, 1, 4)),
          month |-> DigitsToInt(SubSeq(dateArg.val, 6, 7)),
          day |-> DigitsToInt(SubSeq(dateArg.val, 9, 10))]
    ELSE clock

RootKey == Resolve(rootArg)

\* the root names an entry whose metadata can be read
RootExists == RootKey \in DOMAIN fs /\ fs[RootKey].modified.some

IsPrefix(a, b) == Len(a) <= Len(b) /\ SubSeq(b, 1, Len(a)) = a

\* the entries a traversal from the entry r reaches: r itself and what lies
\* below it through directories that can be entered and listed
ReachableFrom(r) ==
    {k \in DOMAIN fs :
        /\ IsPrefix(r, k)
        /\ fs[k].walk
        /\ \A n \in Len(r)..(Len(k) - 1) :
              LET a == fs[SubSeq(k, 1, n)]
              IN  a.kind = "dir" /\ a.walk /\ a.listable}

Decodable(name) == \A i \in 1..Len(name) : name[i] # BadByte

\* the entry is a regular file that passes the suffix and the date predicate
Matches(k) ==
    /\ k # <<>>
    /\ fs[k].kind = "file"
    /\ Decodable(Last(k))
    /\ EndsWith(Last(k), suffix)
    /\ fs[k].modified = Some(TargetDate)

\* the entry fails during traversal: it cannot be read, its metadata or
\* modification time cannot be read, or its name is not text
Failing(k) == ~fs[k].walk \/ ~fs[k].modified.some \/ (k # <<>> /\ ~Decodable(Last(k)))

ExpectedKeys == {k \in ReachableFrom(RootKey) : Matches(k)}

Range(q) == {q[i] : i \in 1..Len(q)}

\* the path written in an output line: what stands between "](" and ")"
PathOfLine(line) ==
    LET i == CHOOSE j \in 1..Len(line) : line[j] = "](" /\ \A j2 \in 1..(j - 1) : line[j2] # "]("
    IN  SubSeq(line, i + 1, Len(line) - 1)

\* the final component of a path, the whole path when there is none
FinalComponent(path) ==
    LET cut == {i \in 1..Len(path) : path[i] = "/"}
        from == IF cut = {} THEN 0 ELSE CHOOSE i \in cut : \A j \in cut : j <= i
    IN  IF from = Len(path) THEN path ELSE SubSeq(path, from + 1, Len(path))

\* the paths among `q` that pass main's two filters, in the order given
Filtered(q, First(_), Second(_)) ==
    SelectSeq(SelectSeq(q, First), Second)

BySuffix(path) == has_suffix(path, suffix)

ByDate(path) == match_date(path, TargetDate)

\* the result of the whole pipeline run from another root
ResultFrom(root) == Filtered(file_iterator(root), BySuffix, ByDate)

\* ------------------------------------------------------------------ claims

InvalidDateLine == <<"error: ", "Invalid date format (should be YYYY-MM-DD)">>

\* C4: every date string that is not a strict YYYY-MM-DD calendar date makes
\* get_date fail with the invalid-date error: the run reports it and never
\* holds a date
C4_NonStrictRejected ==
    (pc # "start" /\ dateArg.some /\ ~StrictValid(dateArg.val))
        => (pc = "exited" /\ date = None /\ stderr = <<InvalidDateLine>>)

\* C5: for every valid YYYY-MM-DD string get_date succeeds, and the date it
\* returns renders back as the identical string
C5_RoundTrip ==
    (pc # "start" /\ dateArg.some /\ StrictValid(dateArg.val))
        => (/\ get_date(dateArg).ok
            /\ date.some
            /\ date.val = get_date(dateArg).val
            /\ date_to_string(date.val) = dateArg.val)

\* a leap day has been parsed
C5_Witness ==
    /\ pc = "root"
    /\ dateArg = Some(<<"2", "0", "2", "4", "-", "0", "2", "-", "2", "9">>)
    /\ date = Some([year |-> 2024, month |-> 2, day |-> 29])

\* C1: when a run with a valid date and an existing root has ended, the set
\* of paths printed is exactly the set of regular files reachable under the
\* root that pass the suffix and the date predicate
C1_PrintedExactlyMatches ==
    (pc = "done" /\ DateValid /\ RootExists)
        => {PathOfLine(stdout[i]) : i \in 1..Len(stdout)} = {KeyPath(k) : k \in ExpectedKeys}

C6_LineIsNameAndPath ==
    /\ Len(stdout) = Len(yielded)
    /\ \A i \in 1..Len(stdout) :
          stdout[i] = <<"- [">> \o FinalComponent(yielded[i]) \o <<"](">> \o yielded[i] \o <<")">>

\* the root is a directory other than the working directory
RootIsSubdir == RootExists /\ RootKey # <<>> /\ fs[RootKey].kind = "dir"

\* the directories above the root of the run
RootsAbove == {KeyPath(SubSeq(RootKey, 1, n)) : n \in 0..(Len(RootKey) - 1)}

Below(q, root) == SelectSeq(q, LAMBDA path : IsPrefix(Resolve(root), Resolve(path)))

\* C7: the results of a traversal rooted at a subdirectory S of R are
\* exactly the results of the traversal rooted at R that lie at or below S
C7_SubtreeOfAnyRoot ==
    (pc = "done" /\ DateValid /\ RootIsSubdir)
        => \A R \in RootsAbove : yielded = Below(ResultFrom(R), rootArg)

\* the traversal from R comes to the directory S
Visits(R, S) == \E i \in 1..Len(WalkDir(R)) : WalkDir(R)[i].ok /\ WalkDir(R)[i].path = S

\* C7 as amended: the same, for the roots R whose traversal comes to S
C7_SubtreeOfVisitingRoot ==
    (pc = "done" /\ DateValid /\ RootIsSubdir)
        => \A R \in RootsAbove :
              Visits(R, rootArg) => yielded = Below(ResultFrom(R), rootArg)

\* a run from a subdirectory two levels down found a match, and the run
\* from the working directory finds that match and one more outside
C7_Witness ==
    /\ pc = "done"
    /\ DateValid /\ RootIsSubdir
    /\ Len(RootKey) = 1
    /\ Visits(<<".">>, rootArg)
    /\ yielded # <<>>
    /\ Len(ResultFrom(<<".">>)) > Len(yielded)

\* C8: at every point of the run the lines written are the matches among
\* the items pulled so far, in traversal order, one line for each
C8_SinglePass ==
    LET seen == SubSeq(items, 1, pos)
        hits == SelectSeq(seen, LAMBDA it : it.ok /\ Resolve(it.path) \in ExpectedKeys)
    IN  /\ yielded = [i \in 1..Len(hits) |-> hits[i].path]
        /\ Len(stdout) = Len(yielded)
        /\ \A i \in 1..Len(stdout) : stdout[i] = format_as_markdown(PrintArg(yielded[i]))

\* one line is written, an item that is no match has been pulled after it,
\* and another match is still to be pulled
C8_Witness ==
    /\ pc = "walk"
    /\ Len(stdout) = 1
    /\ pos >= 3
    /\ items[pos].ok
    /\ Resolve(items[pos].path) \notin ExpectedKeys
    /\ \E i \in (pos + 1)..Len(items) : items[i].ok /\ Resolve(items[i].path) \in ExpectedKeys

\* C9: the run's results are those of the date filter applied before the
\* suffix filter, and those of the conjunction of the two predicates
C9_OrderIrrelevant ==
    (pc = "done" /\ DateValid)
        => /\ yielded = Filtered(file_iterator(rootArg), ByDate, BySuffix)
           /\ yielded = SelectSeq(file_iterator(rootArg),
                                  LAMBDA path : ByDate(path) /\ BySuffix(path))

\* a run has ended with a result, a file passing only the suffix predicate,
\* a file passing only the date predicate and a file whose metadata fails
C9_Witness ==
    /\ pc = "done"
    /\ yielded # <<>>
    /\ \E path \in Range(file_iterator(rootArg)) : BySuffix(path) /\ ~ByDate(path)
    /\ \E path \in Range(file_iterator(rootArg)) : ~BySuffix(path) /\ ByDate(path)
    /\ \E path \in Range(file_iterator(rootArg)) : ~Modified(path).some

\* the root names a regular file
RootIsFile == RootExists /\ fs[RootKey].kind = "file"

\* C10: a root that is an existing regular file is no root-not-found error:
\* the traversal yields that one path, it is printed iff it passes both
\* predicates, and the run ends with code 0
C10_FileRoot ==
    (DateValid /\ RootIsFile)
        => /\ pc # "exited" /\ stderr = <<>>
           /\ pc \in {"walk", "done"} =>
                items = << [ok |-> TRUE, path |-> rootArg, file_type |-> "file"] >>
           /\ pc = "done" =>
                /\ exitCode = Some(0)
                /\ yielded = IF Matches(RootKey) THEN <<rootArg>> ELSE <<>>
                /\ stdout = [i \in 1..Len(yielded) |->
                               <<"- [">> \o Last(RootKey) \o <<"](">> \o rootArg \o <<")">>]

\* a run on a matching file two levels down has ended
C10_Witness ==
    /\ pc = "done"
    /\ RootIsFile
    /\ Len(RootKey) = 2
    /\ yielded = <<rootArg>>
    /\ Len(stdout) = 1

====
